---- MODULE Spec2Model ----
(***************************************************************************)
(* Model of windsurf-throttle: the Windsurf API client (api.py) and the   *)
(* batch loops and bulk cap calculation of the Streamlit app (app.py).    *)
(*                                                                         *)
(* Python values are represented as follows.                               *)
(*   Optional value : None is <<>>, a present value v is <<v>>            *)
(*   dict           : a function whose DOMAIN is the set of keys          *)
(*   exception      : a record [outcome |-> "raise", exc |-> kind, ...]   *)
(***************************************************************************)
EXTENDS Integers, Sequences, FiniteSets, TLC

VARIABLES
    SERVICE_KEY,    \* api.SERVICE_KEY, read from the environment at import
    op,             \* name of the API function last invoked ("none" at start)
    args,           \* the arguments of that invocation
    net,            \* what the network/server did with a POST of that invocation
    result,         \* how the invocation ended and what it posted
    page,           \* app.py: the sidebar's selected page
    uploaded,       \* "Bulk from CSV": the uploaded table (df), None before
    threshold,      \* "Bulk from CSV": number_input csv_threshold
    buffer,         \* "Bulk from CSV": number_input csv_buffer
    dry_run,        \* "Bulk from CSV": the Dry run checkbox
    high_usage,     \* "Bulk from CSV": the table derived from df on each run
    verify_emails,  \* "Verify Caps": lines of the text area verify_emails
    custom_cap_users, \* st.session_state.custom_cap_users
    run,            \* the button handler being executed and what it has shown
    environ,        \* cli.py: os.environ["WINDSURF_SERVICE_KEY"], None if unset
    env_file,       \* cli.py: the text of ~/.windsurf-throttle/.env, None if missing
    cli             \* cli.py: where ensure_api_key is and what it has done

apiVars == <<SERVICE_KEY, op, args, net, result>>

bulkVars == <<uploaded, threshold, buffer, dry_run, high_usage>>

verifyVars == <<verify_emails, custom_cap_users>>

uiVars == <<page, uploaded, threshold, buffer, dry_run, high_usage, verify_emails,
            custom_cap_users, run>>

cliVars == <<environ, env_file, cli>>

vars == <<SERVICE_KEY, op, args, net, result, page, uploaded, threshold, buffer,
          dry_run, high_usage, verify_emails, custom_cap_users, run,
          environ, env_file, cli>>

----------------------------------------------------------------------------
(* Python values *)

None == <<>>

Some(v) == <<v>>

\* Truth value of an Optional[str] argument: None and "" are falsy.
TruthyStr(o) == o /= None /\ o[1] /= ""

----------------------------------------------------------------------------
(* Program constants *)

BASE_CREDITS == 500

DEFAULT_INDIVIDUAL_CAP_BUFFER == 500

GetTimeout == 30

UsersTimeout == 60

\* Default of the number_input csv_threshold.
DefaultThreshold == 1000

----------------------------------------------------------------------------
(* Input domains *)

\* Values the environment variable WINDSURF_SERVICE_KEY can have at import.
ServiceKeys == {None, Some(""), Some("sk-1")}

OptStrings(S) == {None, Some("")} \cup {Some(s) : s \in S}

GroupIds == OptStrings({"g1"})

Emails == OptStrings({"a@x"})

GroupNames == OptStrings({"eng"})

Timestamps == OptStrings({"2025-01-01T00:00:00Z"})

\* Caps a caller can pass: absent, zero, a positive cap.
Caps == {None, Some(0), Some(1500)}

\* HTTP statuses a server can answer with.
Statuses == {200, 204, 302, 404, 500}

\* A response body: text that is or is not JSON; when it is, a JSON object
\* (a dict with its keys, of which the program reads addOnCreditCap and
\* userTableStats) or some other JSON value.
Body(valid, dict, keys, cap, users, text) ==
    [valid |-> valid, dict |-> dict, keys |-> keys, cap |-> cap, users |-> users,
     text |-> text]

NotJson == Body(FALSE, FALSE, {}, None, <<>>, "not json")

JsonArray == Body(TRUE, FALSE, {}, None, <<>>, "[]")

EmptyObject == Body(TRUE, TRUE, {}, None, <<>>, "{}")

CapObject(c) == Body(TRUE, TRUE, {"addOnCreditCap"}, Some(c), <<>>, "{addOnCreditCap}")

UsersObject(us) == Body(TRUE, TRUE, {"userTableStats"}, None, us, "{userTableStats}")

User(email, name) == [email |-> email, name |-> name]

Bodies ==
    {NotJson, JsonArray, EmptyObject, CapObject(1000),
     UsersObject(<<User("a@x", "A")>>)}

\* What happens to one POST: a transport fault (no response), or a response.
Nets ==
    { [fault |-> f, status |-> 0, body |-> NotJson]
        : f \in {"timeout", "connect"} }
    \cup { [fault |-> "none", status |-> s, body |-> b] : s \in Statuses, b \in Bodies }

----------------------------------------------------------------------------
(* api.py: outcomes of a function call *)

NoMsg == [text |-> "", status |-> 0, detail |-> ""]

\* A normal return of value v after the POSTs in posts.
Return(v, posts) ==
    [outcome |-> "return", exc |-> "none", msg |-> NoMsg, value |-> v, posts |-> posts]

\* An exception of class exc leaving the function (or the try block).
Raise(exc, msg, posts) ==
    [outcome |-> "raise", exc |-> exc, msg |-> msg, value |-> None, posts |-> posts]

\* raise WindsurfAPIError(text) before any request was built.
CallerError(text) ==
    Raise("WindsurfAPIError", [text |-> text, status |-> 0, detail |-> ""], <<>>)

MsgNoKey == "WINDSURF_SERVICE_KEY not found in environment"

MsgNoTarget == "Must specify one of: team_level, group_id, or user_email"

MsgNoAction == "Must specify either set_add_on_credit_cap or clear_add_on_credit_cap"

\* The exception classes below derive from Exception; the handlers of the
\* three functions name httpx.HTTPStatusError and Exception.
ExceptionClasses ==
    {"WindsurfAPIError", "HTTPStatusError", "TransportError", "JSONDecodeError",
     "AttributeError"}

----------------------------------------------------------------------------
(* api.py: get_service_key *)

\* Variant: the key is tested with 'is None', so an empty key passes.
get_service_key_IsNone(key) ==
    IF key = None
    THEN [raised |-> TRUE, key |-> ""]
    ELSE [raised |-> FALSE, key |-> key[1]]

\* "if not SERVICE_KEY: raise": None and the empty string both raise.
get_service_key(key) ==
    IF ~TruthyStr(key)
    THEN [raised |-> TRUE, key |-> ""]
    ELSE [raised |-> FALSE, key |-> key[1]]

----------------------------------------------------------------------------
(* api.py: payload assembly *)

\* Variant: three independent ifs in place of the elif chain.
target_fields_IndependentIfs(team_level, group_id, user_email) ==
    [ok |-> team_level \/ TruthyStr(group_id) \/ TruthyStr(user_email),
     fields |->
        (IF team_level THEN "team_level" :> <<"bool", "True">> ELSE <<>>)
        @@ (IF TruthyStr(group_id) THEN "group_id" :> <<"str", group_id[1]>> ELSE <<>>)
        @@ (IF TruthyStr(user_email) THEN "user_email" :> <<"str", user_email[1]>> ELSE <<>>)]

\* The if/elif/elif/else chain selecting the target field: the first truthy
\* one of team_level, group_id, user_email is put in the payload; with none,
\* the else branch raises.
target_fields(team_level, group_id, user_email) ==
    IF team_level
    THEN [ok |-> TRUE, fields |-> "team_level" :> <<"bool", "True">>]
    ELSE IF TruthyStr(group_id)
    THEN [ok |-> TRUE, fields |-> "group_id" :> <<"str", group_id[1]>>]
    ELSE IF TruthyStr(user_email)
    THEN [ok |-> TRUE, fields |-> "user_email" :> <<"str", user_email[1]>>]
    ELSE [ok |-> FALSE, fields |-> <<>>]

\* The if/elif/else chain selecting the update field: clear wins over set;
\* a cap is taken when it "is not None", so a cap of 0 is sent.
update_fields(set_add_on_credit_cap, clear_add_on_credit_cap) ==
    IF clear_add_on_credit_cap
    THEN [ok |-> TRUE, fields |-> "clear_add_on_credit_cap" :> <<"bool", "True">>]
    ELSE IF set_add_on_credit_cap /= None
    THEN [ok |-> TRUE,
          fields |-> "set_add_on_credit_cap" :> <<"int", set_add_on_credit_cap[1]>>]
    ELSE [ok |-> FALSE, fields |-> <<>>]

\* The three independent ifs of get_team_users.
filter_fields(group_name, start_timestamp, end_timestamp) ==
    (IF TruthyStr(group_name) THEN "group_name" :> <<"str", group_name[1]>> ELSE <<>>)
    @@ (IF TruthyStr(start_timestamp)
        THEN "start_timestamp" :> <<"str", start_timestamp[1]>> ELSE <<>>)
    @@ (IF TruthyStr(end_timestamp)
        THEN "end_timestamp" :> <<"str", end_timestamp[1]>> ELSE <<>>)

----------------------------------------------------------------------------
(* api.py: the request *)

Request(url, payload, timeout) == [url |-> url, json |-> payload, timeout |-> timeout]

HttpMsg(n) == [text |-> "HTTP error", status |-> n.status, detail |-> n.body.text]

FaultMsg(prefix, cause) == [text |-> prefix, status |-> 0, detail |-> cause]

\* Variant: a failed request is sent a second time.
client_post_Retry(url, payload, timeout, n) ==
    LET req == Request(url, payload, timeout)
    IN  IF n.fault /= "none"
        THEN Raise("TransportError", FaultMsg("", n.fault), <<req, req>>)
        ELSE IF ~(n.status \in 200..299)
        THEN Raise("HTTPStatusError", HttpMsg(n), <<req, req>>)
        ELSE IF ~n.body.valid
        THEN Raise("JSONDecodeError", FaultMsg("", "json"), <<req>>)
        ELSE Return(Some(n.body), <<req>>)

\* The body of the try block up to response.json(), for one POST whose fate
\* is n: client.post raises on a transport fault, raise_for_status raises
\* httpx.HTTPStatusError on a status outside 2xx (httpx >= 0.21),
\* response.json() raises on a body that is not JSON; otherwise the parsed
\* body is the value.
client_post(url, payload, timeout, n) ==
    LET req == Request(url, payload, timeout)
    IN  IF n.fault /= "none"
        THEN Raise("TransportError", FaultMsg("", n.fault), <<req>>)
        ELSE IF ~(n.status \in 200..299)
        THEN Raise("HTTPStatusError", HttpMsg(n), <<req>>)
        ELSE IF ~n.body.valid
        THEN Raise("JSONDecodeError", FaultMsg("", "json"), <<req>>)
        ELSE Return(Some(n.body), <<req>>)

\* Variant: the 'except Exception' clause is missing.
except_clauses_OnlyHTTPStatusError(r, prefix) ==
    IF r.outcome = "return"
    THEN r
    ELSE IF r.exc = "HTTPStatusError"
    THEN Raise("WindsurfAPIError", r.msg, r.posts)
    ELSE r

\* The two except clauses closing the try block of each function:
\*   except httpx.HTTPStatusError -> WindsurfAPIError("HTTP error: ...")
\*   except Exception             -> WindsurfAPIError(prefix + cause)
except_clauses(r, prefix) ==
    IF r.outcome = "return"
    THEN r
    ELSE IF r.exc = "HTTPStatusError"
    THEN Raise("WindsurfAPIError", r.msg, r.posts)
    ELSE IF r.exc \in ExceptionClasses
    THEN Raise("WindsurfAPIError", FaultMsg(prefix, r.msg.detail), r.posts)
    ELSE r

\* data.get("userTableStats", []): AttributeError when the parsed body is no
\* dict, the empty list when the key is absent, else the listed users.
user_table_stats(r) ==
    IF r.outcome /= "return"
    THEN r
    ELSE IF ~r.value[1].dict
    THEN Raise("AttributeError", FaultMsg("", "no attribute get"), r.posts)
    ELSE IF "userTableStats" \in r.value[1].keys
    THEN Return(Some(r.value[1].users), r.posts)
    ELSE Return(Some(<<>>), r.posts)

----------------------------------------------------------------------------
(* api.py: the three operations, as functions of their arguments, of the
   module's SERVICE_KEY (key) and of the fate n of a POST *)

get_usage_config(key, team_level, group_id, user_email, n) ==
    LET sk == get_service_key(key)
        tgt == target_fields(team_level, group_id, user_email)
        payload == ("service_key" :> <<"str", sk.key>>) @@ tgt.fields
    IN  IF sk.raised THEN CallerError(MsgNoKey)
        ELSE IF ~tgt.ok THEN CallerError(MsgNoTarget)
        ELSE except_clauses(
                client_post("/api/v1/GetUsageConfig", payload, GetTimeout, n),
                "Error getting usage config")

get_team_users(key, group_name, start_timestamp, end_timestamp, n) ==
    LET sk == get_service_key(key)
        payload == ("service_key" :> <<"str", sk.key>>)
                   @@ filter_fields(group_name, start_timestamp, end_timestamp)
    IN  IF sk.raised THEN CallerError(MsgNoKey)
        ELSE except_clauses(
                user_table_stats(
                    client_post("/api/v1/UserPageAnalytics", payload, UsersTimeout, n)),
                "Error getting team users")

set_usage_config(key, set_cap, clear_cap, team_level, group_id, user_email, n) ==
    LET sk == get_service_key(key)
        upd == update_fields(set_cap, clear_cap)
        tgt == target_fields(team_level, group_id, user_email)
        payload == ("service_key" :> <<"str", sk.key>>) @@ upd.fields @@ tgt.fields
    IN  IF sk.raised THEN CallerError(MsgNoKey)
        ELSE IF ~upd.ok THEN CallerError(MsgNoAction)
        ELSE IF ~tgt.ok THEN CallerError(MsgNoTarget)
        ELSE except_clauses(
                client_post("/api/v1/UsageConfig", payload, GetTimeout, n),
                "Error setting usage config")

----------------------------------------------------------------------------
(* app.py, "Bulk from CSV": numbers *)

\* credits_used is a CSV column and may hold fractions; a quantity of
\* credits is represented by its number of half credits, so that n credits
\* is Half(n).  threshold, buffer and the caps are whole numbers.
Half(n) == 2 * n

\* Variant: rounding down instead of toward zero.
astype_int_Floor(h) == h \div 2

\* Series.astype(int) on a quantity of h half credits: truncation toward 0.
astype_int(h) == IF h >= 0 THEN h \div 2 ELSE -((-h) \div 2)

\* Rows of an uploaded CSV: credits_used is 100.5, 1000, 1500.5 or 2000.
CsvEmails == {"a@x", "b@x"}

CsvCredits == {Half(100) + 1, Half(1000), Half(1500) + 1, Half(2000)}

\* The rows an upload is made of: each of the four quantities, under one of
\* the two emails.
CsvRows ==
    {r \in [email : CsvEmails, credits_used : CsvCredits] :
        (r.email = "a@x") <=> (r.credits_used % 2 = 1)}

\* Largest number of rows of an uploaded CSV.
MaxRows == 4

Tables == UNION {[1..n -> CsvRows] : n \in 0..MaxRows}

\* An upload: the columns found and the rows read by pd.read_csv.
Uploads ==
    {[columns_ok |-> TRUE, rows |-> t] : t \in Tables}
    \cup {[columns_ok |-> FALSE, rows |-> <<>>]}

Thresholds == {0, DefaultThreshold}

Buffers == {0, DEFAULT_INDIVIDUAL_CAP_BUFFER}

----------------------------------------------------------------------------
(* app.py, "Bulk from CSV": the cap calculation *)

\* df with the index labels read_csv gives its rows: 0, 1, 2, ...
Labelled(df) ==
    [k \in 1..Len(df) |->
        [index |-> k - 1, email |-> df[k].email, credits_used |-> df[k].credits_used]]

\* Variant: '>=' in place of '>'.
select_rows_AtLeast(df, t) ==
    SelectSeq(Labelled(df), LAMBDA r : r.credits_used >= Half(t))

\* df[df["credits_used"] > threshold]: the rows kept keep their labels.
select_rows(df, t) ==
    SelectSeq(Labelled(df), LAMBDA r : r.credits_used > Half(t))

\* The three column assignments on the copy.
annotate(r, b) ==
    LET addon_used == r.credits_used - Half(BASE_CREDITS)
        proposed_cap == astype_int(addon_used + Half(b))
    IN  [index |-> r.index, email |-> r.email, credits_used |-> r.credits_used,
         addon_used |-> addon_used, proposed_cap |-> proposed_cap,
         total_available |-> BASE_CREDITS + proposed_cap]

\* high_usage as the script computes it on every run of the tab.
bulk_caps(up, t, b) ==
    IF up = None \/ ~up[1].columns_ok
    THEN <<>>
    ELSE LET sel == select_rows(up[1].rows, t)
         IN  [k \in 1..Len(sel) |-> annotate(sel[k], b)]

----------------------------------------------------------------------------
(* app.py: what a run of the script holds *)

\* The pages with loops; a session is followed on the page it has open.
Pages == {"Verify Caps", "Set Individual Caps"}

\* Something the script put on the page.
Show(widget, text, email, count, rows) ==
    [widget |-> widget, text |-> text, email |-> email, count |-> count, rows |-> rows]

\* A row of the results tables of Check Users and Apply Caps.
Row(email, cap, status, msg) ==
    [email |-> email, cap |-> cap, status |-> status, msg |-> msg]

\* A row of custom_cap_users.
CustomCap(name, email, user_cap, team_cap) ==
    [name |-> name, email |-> email, user_cap |-> user_cap, team_cap |-> team_cap]

\* One item of a loop as handled: the API call made for it, if any, and how
\* it ended.
Handled(email, fn, cap, outcome) ==
    [email |-> email, fn |-> fn, cap |-> cap, outcome |-> outcome]

\* No button handler is running and none has left output on the page.
NoRun ==
    [loop |-> "none", state |-> "idle", items |-> <<>>, pos |-> 0,
     results |-> <<>>, shown |-> <<>>, progress |-> <<>>, handled |-> <<>>,
     team_cap |-> None, success_count |-> 0, fail_count |-> 0]

StartRun(loop, items) ==
    [NoRun EXCEPT !.loop = loop, !.state = "running", !.items = items]

\* st.progress(value) raises StreamlitAPIException unless 0.0 <= value <= 1.0;
\* the value is num / den with den > 0.
ProgressOk(num, den) == 0 <= num /\ num <= den

\* The state of every widget when its page is first rendered.
WidgetDefaults ==
    /\ uploaded = None
    /\ threshold = DefaultThreshold
    /\ buffer = DEFAULT_INDIVIDUAL_CAP_BUFFER
    /\ dry_run = TRUE
    /\ high_usage = <<>>
    /\ verify_emails = <<>>

----------------------------------------------------------------------------
(* cli.py: texts.  A text is a sequence of pieces; the piece NL is a line
   break, so two pieces with no NL between them are on the same line. *)

NL == "\n"

KeyName == "WINDSURF_SERVICE_KEY="

HeaderLine == "# Windsurf Credit Throttle Configuration"

\* Truth value of a text, or of an Optional text.
TruthyText(o) == o /= None /\ o[1] /= <<>>

\* str.endswith("\n")
EndsWithNL(t) == t /= <<>> /\ t[Len(t)] = NL

\* The lines of a text, each without its line break.
RECURSIVE SplitLines(_, _, _)
SplitLines(t, k, line) ==
    IF k > Len(t)
    THEN (IF line = <<>> THEN <<>> ELSE <<line>>)
    ELSE IF t[k] = NL
    THEN <<line>> \o SplitLines(t, k + 1, <<>>)
    ELSE SplitLines(t, k + 1, Append(line, t[k]))

LinesOf(t) == SplitLines(t, 1, <<>>)

\* str.strip on what the operator typed: blanks at both ends are dropped.
RECURSIVE lstrip(_)
lstrip(t) == IF t /= <<>> /\ t[1] = " " THEN lstrip(Tail(t)) ELSE t

RECURSIVE rstrip(_)
rstrip(t) ==
    IF t /= <<>> /\ t[Len(t)] = " " THEN rstrip(SubSeq(t, 1, Len(t) - 1)) ELSE t

strip_input(t) == rstrip(lstrip(t))

\* load_dotenv(env_path) as far as WINDSURF_SERVICE_KEY goes: a variable
\* already in the environment is kept (no override); otherwise the last
\* line of the file that starts with the name binds it to the rest of that
\* line; a missing file binds nothing.
load_dotenv(file, env) ==
    IF env /= None \/ file = None
    THEN env
    ELSE LET ls == LinesOf(file[1])
             binding == {k \in 1..Len(ls) : ls[k] /= <<>> /\ ls[k][1] = KeyName}
         IN  IF binding = {}
             THEN None
             ELSE LET last == CHOOSE k \in binding : \A j \in binding : j <= k
                  IN  Some(Tail(ls[last]))

\* Lines 39-50 of ensure_api_key on the file: existing_content is the text
\* read (with a line break added to the variable when the text lacks one),
\* and the file is opened for appending: the header goes in only when
\* existing_content is empty, then the key line.
write_key(file, api_key) ==
    LET text == IF file = None THEN <<>> ELSE file[1]
        existing_content ==
            IF file = None THEN <<>>
            ELSE IF EndsWithNL(text) THEN text
            ELSE Append(text, NL)
        appended ==
            (IF existing_content = <<>> THEN <<HeaderLine, NL>> ELSE <<>>)
            \o <<KeyName>> \o api_key \o <<NL>>
    IN  Some(text \o appended)

\* ensure_api_key has not been entered.
CliStart == [pc |-> "start", prompts |-> 0, api_key |-> <<>>, exit_status |-> None]

CliNotRun ==
    /\ environ = None
    /\ env_file = None
    /\ cli = CliStart

----------------------------------------------------------------------------
(* A caller of the client: one invocation at a time *)

NoArgs ==
    [team_level |-> FALSE, group_id |-> None, user_email |-> None,
     set_add_on_credit_cap |-> None, clear_add_on_credit_cap |-> FALSE,
     group_name |-> None, start_timestamp |-> None, end_timestamp |-> None]

NoNet == [fault |-> "unused", status |-> 0, body |-> NotJson]

NoResult == Return(None, <<>>)

Init ==
    /\ SERVICE_KEY \in ServiceKeys
    /\ op = "none"
    /\ args = NoArgs
    /\ net = NoNet
    /\ result = NoResult
    /\ page = "Verify Caps"
    /\ WidgetDefaults
    /\ custom_cap_users = <<>>
    /\ run = NoRun
    /\ CliNotRun

\* A caller invokes get_usage_config; the network does n if it is asked.
GetUsageConfig ==
    /\ op = "none"
    /\ \E t \in BOOLEAN, g \in GroupIds, u \in Emails, n \in Nets :
        /\ op' = "get_usage_config"
        /\ args' = [NoArgs EXCEPT !.team_level = t, !.group_id = g, !.user_email = u]
        /\ net' = n
        /\ result' = get_usage_config(SERVICE_KEY, t, g, u, n)
    /\ UNCHANGED <<SERVICE_KEY, uiVars, cliVars>>

GetTeamUsers ==
    /\ op = "none"
    /\ \E gn \in GroupNames, st \in Timestamps, et \in Timestamps, n \in Nets :
        /\ op' = "get_team_users"
        /\ args' = [NoArgs EXCEPT !.group_name = gn, !.start_timestamp = st,
                                  !.end_timestamp = et]
        /\ net' = n
        /\ result' = get_team_users(SERVICE_KEY, gn, st, et, n)
    /\ UNCHANGED <<SERVICE_KEY, uiVars, cliVars>>

SetUsageConfig ==
    /\ op = "none"
    /\ \E c \in Caps, cl \in BOOLEAN, t \in BOOLEAN, g \in GroupIds, u \in Emails,
          n \in Nets :
        /\ op' = "set_usage_config"
        /\ args' = [NoArgs EXCEPT !.set_add_on_credit_cap = c,
                                  !.clear_add_on_credit_cap = cl,
                                  !.team_level = t, !.group_id = g, !.user_email = u]
        /\ net' = n
        /\ result' = set_usage_config(SERVICE_KEY, c, cl, t, g, u, n)
    /\ UNCHANGED <<SERVICE_KEY, uiVars, cliVars>>

\* The caller has taken the outcome; the client keeps nothing between calls.
Finish ==
    /\ op /= "none"
    /\ op' = "none"
    /\ args' = NoArgs
    /\ net' = NoNet
    /\ result' = NoResult
    /\ UNCHANGED <<SERVICE_KEY, uiVars, cliVars>>

Next == GetUsageConfig \/ GetTeamUsers \/ SetUsageConfig \/ Finish

Spec == Init /\ [][Next]_vars

----------------------------------------------------------------------------
(* Properties of the API client *)

ConfigOps == {"get_usage_config", "set_usage_config"}

TargetKeys == {"team_level", "group_id", "user_email"}

UpdateKeys == {"set_add_on_credit_cap", "clear_add_on_credit_cap"}

\* The target arguments of the invocation that are populated.
PopulatedTargets ==
    (IF args.team_level THEN {"team_level"} ELSE {})
    \cup (IF TruthyStr(args.group_id) THEN {"group_id"} ELSE {})
    \cup (IF TruthyStr(args.user_email) THEN {"user_email"} ELSE {})

\* The update arguments of the invocation that are populated.
PopulatedUpdates ==
    (IF args.set_add_on_credit_cap /= None THEN {"set_add_on_credit_cap"} ELSE {})
    \cup (IF args.clear_add_on_credit_cap THEN {"clear_add_on_credit_cap"} ELSE {})

RaisedApiError == result.outcome = "raise" /\ result.exc = "WindsurfAPIError"

RaisedWith(text) == RaisedApiError /\ result.msg.text = text

NoHttp == result.posts = <<>>

\* C1 (as claimed): get_usage_config, and set_usage_config with a valid
\* update, called with no target populated raise WindsurfAPIError with the
\* "Must specify one of" message and attempt no HTTP request.
C1_NoTargetRaisesTargetError ==
    (/\ op \in ConfigOps
     /\ PopulatedTargets = {}
     /\ (op = "set_usage_config" => Cardinality(PopulatedUpdates) = 1))
    => (RaisedWith(MsgNoTarget) /\ NoHttp)

\* C2 (as claimed): set_usage_config with neither a cap nor the clear flag
\* raises the "Must specify either" error, whatever the target arguments,
\* and issues no HTTP request.
C2_NoUpdateRaisesUpdateError ==
    (op = "set_usage_config" /\ PopulatedUpdates = {})
    => (RaisedWith(MsgNoAction) /\ NoHttp)

\* C3 (as claimed): a config call that populates more than one of
\* team_level, group_id, user_email raises WindsurfAPIError and issues no
\* HTTP request.
C3_SeveralTargetsRejected ==
    (op \in ConfigOps /\ Cardinality(PopulatedTargets) > 1)
    => (RaisedApiError /\ NoHttp)

\* C4 (as claimed): set_usage_config with both a numeric cap and the clear
\* flag raises WindsurfAPIError before any HTTP request.
C4_SetAndClearRejected ==
    (op = "set_usage_config" /\ Cardinality(PopulatedUpdates) = 2)
    => (RaisedApiError /\ NoHttp)

\* A body carries key k only for a populated argument, with its value.
CarriesOnlyPopulated(json) ==
    /\ "team_level" \in DOMAIN json => args.team_level
    /\ "group_id" \in DOMAIN json =>
        (args.group_id /= None /\ json["group_id"] = <<"str", args.group_id[1]>>)
    /\ "user_email" \in DOMAIN json =>
        (args.user_email /= None /\ json["user_email"] = <<"str", args.user_email[1]>>)
    /\ "clear_add_on_credit_cap" \in DOMAIN json => args.clear_add_on_credit_cap
    /\ "set_add_on_credit_cap" \in DOMAIN json =>
        (/\ args.set_add_on_credit_cap /= None
         /\ json["set_add_on_credit_cap"] = <<"int", args.set_add_on_credit_cap[1]>>)

\* C5: every body sent by get_usage_config or set_usage_config has exactly
\* one target key; every body sent by set_usage_config has exactly one
\* update key as well; and a body carries a key only if its argument was
\* present/true (a cap of 0 included).
C5_BodyShape ==
    op \in ConfigOps =>
        \A i \in 1..Len(result.posts) :
            LET json == result.posts[i].json
            IN  /\ Cardinality(DOMAIN json \cap TargetKeys) = 1
                /\ op = "set_usage_config" => Cardinality(DOMAIN json \cap UpdateKeys) = 1
                /\ op = "get_usage_config" => DOMAIN json \cap UpdateKeys = {}
                /\ CarriesOnlyPopulated(json)

\* C5 witness: a cap of 0 is sent, with several targets populated and one kept.
C5_Witness ==
    /\ op = "set_usage_config"
    /\ Len(result.posts) = 1
    /\ args.set_add_on_credit_cap = Some(0)
    /\ "set_add_on_credit_cap" \in DOMAIN result.posts[1].json
    /\ Cardinality(PopulatedTargets) = 3

\* C6: every request carries a non-empty service_key, and with the
\* credential absent or empty every operation raises WindsurfAPIError with
\* no request, whatever its other arguments.
C6_CredentialRequired ==
    /\ \A i \in 1..Len(result.posts) :
        /\ "service_key" \in DOMAIN result.posts[i].json
        /\ result.posts[i].json["service_key"][2] /= ""
        /\ Some(result.posts[i].json["service_key"][2]) = SERVICE_KEY
    /\ (op /= "none" /\ ~TruthyStr(SERVICE_KEY)) => (RaisedApiError /\ NoHttp)

\* C6 witness: get_team_users, which validates nothing else, called with an
\* empty credential.
C6_Witness ==
    /\ op = "get_team_users"
    /\ SERVICE_KEY = Some("")
    /\ RaisedWith(MsgNoKey)
    /\ NoHttp

\* The code's caller-side validation fails for the invocation.
ValidationFails ==
    \/ ~TruthyStr(SERVICE_KEY)
    \/ op \in ConfigOps /\ PopulatedTargets = {}
    \/ op = "set_usage_config" /\ PopulatedUpdates = {}

\* The POST of the invocation fails or is answered with an unusable body.
RequestFails ==
    \/ net.fault /= "none"
    \/ ~(net.status \in 200..299)
    \/ ~net.body.valid

\* C7: an invocation either returns the value parsed from a 2xx response or
\* raises WindsurfAPIError; a validation failure, a non-2xx status, a
\* transport fault or a malformed body never returns normally and never
\* lets another exception class escape.
C7_ReturnOrApiError ==
    op /= "none" =>
        /\ \/ /\ result.outcome = "return"
              /\ Len(result.posts) = 1
              /\ net.fault = "none" /\ net.status \in 200..299 /\ net.body.valid
              /\ result.value /= None
              /\ op \in ConfigOps => result.value[1] = net.body
              /\ op = "get_team_users" =>
                    /\ net.body.dict
                    /\ result.value[1] =
                        IF "userTableStats" \in net.body.keys
                        THEN net.body.users ELSE <<>>
           \/ RaisedApiError
        /\ (ValidationFails \/ RequestFails) => RaisedApiError

\* C7 witness: a 2xx answer that is JSON but no object makes get_team_users
\* fail inside the try block.
C7_Witness ==
    /\ op = "get_team_users"
    /\ net.fault = "none" /\ net.status = 200
    /\ net.body.valid /\ ~net.body.dict
    /\ RaisedWith("Error getting team users")

\* C8: an invocation issues at most one HTTP request, and after a failed
\* request it raises without a second one.
C8_NoRetry ==
    /\ Len(result.posts) <= 1
    /\ (op /= "none" /\ ~ValidationFails /\ RequestFails) =>
        (Len(result.posts) = 1 /\ RaisedApiError)

\* C8 witness: a request answered 500 (and one that timed out is alike).
C8_Witness ==
    /\ op = "set_usage_config"
    /\ net.fault = "none" /\ net.status = 500
    /\ Len(result.posts) = 1
    /\ RaisedWith("HTTP error")

----------------------------------------------------------------------------
(* app.py: the pages.  The app runs only with a service key configured
   (check_configuration stops the script otherwise). *)

Answer(status, body) == [fault |-> "none", status |-> status, body |-> body]

Timeout == [fault |-> "timeout", status |-> 0, body |-> NotJson]

\* What the server does with a set_usage_config request of a loop.
SetAnswers == {Answer(200, EmptyObject), Timeout}

InitApp ==
    /\ SERVICE_KEY \in {k \in ServiceKeys : TruthyStr(k)}
    /\ op = "none"
    /\ args = NoArgs
    /\ net = NoNet
    /\ result = NoResult
    /\ page \in Pages
    /\ WidgetDefaults
    /\ custom_cap_users = <<>>
    /\ run = NoRun
    /\ CliNotRun

Idle == run.state /= "running"

OnBulkTab == page = "Set Individual Caps" /\ Idle

\* st.file_uploader: a CSV is uploaded and the script reruns.
UploadCsv ==
    /\ OnBulkTab
    /\ uploaded = None
    /\ \E up \in Uploads :
        /\ uploaded' = Some(up)
        /\ high_usage' = bulk_caps(Some(up), threshold, buffer)
        /\ run' = IF up.columns_ok
                  THEN NoRun
                  ELSE [NoRun EXCEPT !.shown =
                            <<Show("error", "CSV must have 'email' and 'credits_used' columns",
                                   "", 0, <<>>)>>]
    /\ UNCHANGED <<cliVars, apiVars, page, threshold, buffer, dry_run, verifyVars>>

ColumnsError ==
    IF uploaded /= None /\ ~uploaded[1].columns_ok
    THEN [NoRun EXCEPT !.shown =
            <<Show("error", "CSV must have 'email' and 'credits_used' columns",
                   "", 0, <<>>)>>]
    ELSE NoRun

\* number_input csv_threshold changed: the script reruns.
SetThreshold ==
    /\ OnBulkTab
    /\ \E t \in Thresholds \ {threshold} :
        /\ threshold' = t
        /\ high_usage' = bulk_caps(uploaded, t, buffer)
    /\ run' = ColumnsError
    /\ UNCHANGED <<cliVars, apiVars, page, uploaded, buffer, dry_run, verifyVars>>

\* number_input csv_buffer changed: the script reruns.
SetBuffer ==
    /\ OnBulkTab
    /\ \E b \in Buffers \ {buffer} :
        /\ buffer' = b
        /\ high_usage' = bulk_caps(uploaded, threshold, b)
    /\ run' = ColumnsError
    /\ UNCHANGED <<cliVars, apiVars, page, uploaded, threshold, dry_run, verifyVars>>

\* The Dry run checkbox, rendered once a CSV with both columns is uploaded.
SetDryRun ==
    /\ OnBulkTab
    /\ uploaded /= None /\ uploaded[1].columns_ok
    /\ dry_run' = ~dry_run
    /\ high_usage' = bulk_caps(uploaded, threshold, buffer)
    /\ run' = NoRun
    /\ UNCHANGED <<cliVars, apiVars, page, uploaded, threshold, buffer, verifyVars>>

\* Button "Apply Caps": results, progress bar and status text are created
\* and the loop over high_usage.iterrows() is entered.
ApplyCapsStart ==
    /\ OnBulkTab
    /\ uploaded /= None /\ uploaded[1].columns_ok
    /\ run' = StartRun("apply_caps", high_usage)
    /\ UNCHANGED <<cliVars, apiVars, page, bulkVars, verifyVars>>

\* One iteration: i is the row's index label in the uploaded table.
ApplyCapsStep ==
    /\ run.loop = "apply_caps" /\ run.state = "running"
    /\ run.pos < Len(run.items)
    /\ LET row == run.items[run.pos + 1]
           cap == row.proposed_cap
       IN  \E n \in (IF dry_run THEN {NoNet} ELSE SetAnswers) :
            LET r == set_usage_config(SERVICE_KEY, Some(cap), FALSE, FALSE, None,
                                      Some(row.email), n)
                uncaught == ~dry_run /\ r.outcome = "raise" /\ r.exc /= "WindsurfAPIError"
                new_row ==
                    IF dry_run THEN Row(row.email, Some(cap), "Would set (dry run)", "")
                    ELSE IF r.outcome = "return" THEN Row(row.email, Some(cap), "Set", "")
                    ELSE Row(row.email, Some(cap), "Error", r.msg.text)
                how == IF dry_run THEN "dry run"
                       ELSE IF r.outcome = "return" THEN "ok" ELSE r.exc
                fn == IF dry_run THEN "none" ELSE "set_usage_config"
            IN  run' =
                    IF uncaught
                    THEN [run EXCEPT !.state = "crashed",
                            !.handled = Append(@, Handled(row.email, fn, Some(cap), how))]
                    ELSE [run EXCEPT
                            !.results = Append(@, new_row),
                            !.handled = Append(@, Handled(row.email, fn, Some(cap), how)),
                            !.progress = Append(@, [num |-> row.index + 1,
                                                    den |-> Len(run.items)]),
                            !.pos = @ + 1,
                            !.state = IF ProgressOk(row.index + 1, Len(run.items))
                                      THEN "running" ELSE "crashed"]
    /\ UNCHANGED <<cliVars, apiVars, page, bulkVars, verifyVars>>

\* After the loop: "Processing complete!" and the table of results.
ApplyCapsEnd ==
    /\ run.loop = "apply_caps" /\ run.state = "running"
    /\ run.pos = Len(run.items)
    /\ run' = [run EXCEPT
                !.state = "done",
                !.shown = @ \o <<Show("success", "Processing complete!", "", 0, <<>>),
                                 Show("dataframe", "", "", 0, run.results)>>]
    /\ UNCHANGED <<cliVars, apiVars, page, bulkVars, verifyVars>>

----------------------------------------------------------------------------
(* app.py, "Verify Caps": Check Users *)

\* What the server does with a get_usage_config request of a loop.
ConfigAnswers ==
    {Answer(200, CapObject(1000)), Answer(200, CapObject(2000)),
     Answer(200, EmptyObject), Answer(500, NotJson)}

\* Lines an operator types in the text area.
Lines == {"", "a@x", " b@x"}

\* Largest number of lines typed in the text area.
MaxLines == 2

TextAreas == UNION {[1..n -> Lines] : n \in 0..MaxLines}

\* str.strip on the lines above.
strip(l) == IF l = " b@x" THEN "b@x" ELSE l

\* [e.strip() for e in text.strip().split("\n") if e.strip()]
parse_emails(lines) ==
    LET kept == SelectSeq(lines, LAMBDA l : strip(l) /= "")
    IN  [k \in 1..Len(kept) |-> strip(kept[k])]

OnVerifyPage == page = "Verify Caps" /\ Idle

\* The operator fills the text area.
EnterEmails ==
    /\ OnVerifyPage
    /\ verify_emails = <<>>
    /\ \E t \in TextAreas \ {<<>>} : verify_emails' = t
    /\ run' = NoRun
    /\ UNCHANGED <<cliVars, apiVars, page, bulkVars, custom_cap_users>>

\* Button "Check Users".
CheckUsersStart ==
    /\ OnVerifyPage
    /\ LET emails == parse_emails(verify_emails)
       IN  run' = IF emails = <<>>
                  THEN [NoRun EXCEPT !.loop = "check_users", !.state = "returned",
                            !.shown = <<Show("warning",
                                "Please enter at least one email address", "", 0, <<>>)>>]
                  ELSE StartRun("check_users", emails)
    /\ UNCHANGED <<cliVars, apiVars, page, bulkVars, verifyVars>>

CheckUsersStep ==
    /\ run.loop = "check_users" /\ run.state = "running"
    /\ run.pos < Len(run.items)
    /\ LET email == run.items[run.pos + 1]
       IN  \E n \in ConfigAnswers :
            LET r == get_usage_config(SERVICE_KEY, FALSE, None, Some(email), n)
                \* config.get on a value that is no dict, or an exception that
                \* is no WindsurfAPIError, leaves the handler.
                uncaught ==
                    \/ r.outcome = "raise" /\ r.exc /= "WindsurfAPIError"
                    \/ r.outcome = "return" /\ ~r.value[1].dict
                new_row ==
                    IF r.outcome = "return"
                    THEN Row(email, r.value[1].cap, "ok", "")
                    ELSE Row(email, None, "Error", r.msg.text)
                how == IF r.outcome = "return" THEN "ok" ELSE r.exc
                h == Handled(email, "get_usage_config", None, how)
            IN  run' =
                    IF uncaught
                    THEN [run EXCEPT !.state = "crashed", !.handled = Append(@, h)]
                    ELSE [run EXCEPT
                            !.results = Append(@, new_row),
                            !.handled = Append(@, h),
                            !.progress = Append(@, [num |-> run.pos + 1,
                                                    den |-> Len(run.items)]),
                            !.pos = @ + 1,
                            !.state = IF ProgressOk(run.pos + 1, Len(run.items))
                                      THEN "running" ELSE "crashed"]
    /\ UNCHANGED <<cliVars, apiVars, page, bulkVars, verifyVars>>

CheckUsersEnd ==
    /\ run.loop = "check_users" /\ run.state = "running"
    /\ run.pos = Len(run.items)
    /\ run' = [run EXCEPT !.state = "done",
                          !.shown = Append(@, Show("dataframe", "", "", 0, run.results))]
    /\ UNCHANGED <<cliVars, apiVars, page, bulkVars, verifyVars>>

----------------------------------------------------------------------------
(* app.py, "Verify Caps": Find Users with Custom Caps *)

\* Users the server can list; one of them has no email.
UserPool == {User("a@x", "A"), User("b@x", "B"), User("", "C")}

\* Largest number of users listed.
MaxUsers == 2

UserLists ==
    UNION {{us \in [1..n -> UserPool] : \A i, j \in 1..n : i /= j => us[i] /= us[j]}
            : n \in 0..MaxUsers}

TeamAnswers == {Answer(200, CapObject(1000)), Answer(200, EmptyObject), Answer(500, NotJson)}

UsersAnswers ==
    {Answer(200, UsersObject(us)) : us \in UserLists}
    \cup {Answer(200, EmptyObject), Timeout}

ErrorRun(loop, text, r) ==
    [NoRun EXCEPT !.loop = loop, !.state = "returned",
        !.shown = <<Show("error", text, "", 0, <<r.msg>>)>>]

\* Button "Find Users with Custom Caps", up to the loop: the team config
\* and the user list are fetched; a failure of either, or an empty list,
\* ends the handler.
FindCustomCapsStart ==
    /\ OnVerifyPage
    /\ \E n1 \in TeamAnswers, n2 \in UsersAnswers :
        LET r1 == get_usage_config(SERVICE_KEY, TRUE, None, None, n1)
            r2 == get_team_users(SERVICE_KEY, None, None, None, n2)
        IN  run' =
                IF r1.outcome = "raise"
                THEN ErrorRun("find_custom_caps", "Failed to get team config", r1)
                ELSE IF r2.outcome = "raise"
                THEN ErrorRun("find_custom_caps", "Failed to get team users", r2)
                ELSE IF r2.value[1] = <<>>
                THEN [NoRun EXCEPT !.loop = "find_custom_caps", !.state = "returned",
                        !.shown = <<Show("warning", "No users found in team", "", 0, <<>>)>>]
                ELSE [StartRun("find_custom_caps", r2.value[1]) EXCEPT
                        !.team_cap = r1.value[1].cap,
                        !.shown = <<Show("info", "Checking users", "",
                                         Len(r2.value[1]), <<>>)>>]
    /\ UNCHANGED <<cliVars, apiVars, page, bulkVars, verifyVars>>

FindCustomCapsStep ==
    /\ run.loop = "find_custom_caps" /\ run.state = "running"
    /\ run.pos < Len(run.items)
    /\ LET user == run.items[run.pos + 1]
       IN  IF user.email = ""
           THEN \* continue
                run' = [run EXCEPT !.pos = @ + 1]
           ELSE \E n \in ConfigAnswers :
                LET r == get_usage_config(SERVICE_KEY, FALSE, None, Some(user.email), n)
                    uncaught ==
                        \/ r.outcome = "raise" /\ r.exc /= "WindsurfAPIError"
                        \/ r.outcome = "return" /\ ~r.value[1].dict
                    user_cap == IF r.outcome = "return" THEN r.value[1].cap ELSE None
                    custom == user_cap /= None /\ user_cap /= run.team_cap
                    how == IF r.outcome = "return" THEN "ok" ELSE r.exc
                    h == Handled(user.email, "get_usage_config", None, how)
                IN  run' =
                        IF uncaught
                        THEN [run EXCEPT !.state = "crashed", !.handled = Append(@, h)]
                        ELSE [run EXCEPT
                                !.results =
                                    IF custom
                                    THEN Append(@, CustomCap(user.name, user.email,
                                                             user_cap, run.team_cap))
                                    ELSE @,
                                !.handled = Append(@, h),
                                !.progress = Append(@, [num |-> run.pos + 1,
                                                        den |-> Len(run.items)]),
                                !.pos = @ + 1,
                                !.state = IF ProgressOk(run.pos + 1, Len(run.items))
                                          THEN "running" ELSE "crashed"]
    /\ UNCHANGED <<cliVars, apiVars, page, bulkVars, verifyVars>>

FindCustomCapsEnd ==
    /\ run.loop = "find_custom_caps" /\ run.state = "running"
    /\ run.pos = Len(run.items)
    /\ custom_cap_users' = run.results
    /\ run' = [run EXCEPT
                !.state = "done",
                !.shown = @ \o
                    (IF run.results /= <<>>
                     THEN <<Show("success", "Found users with custom caps", "",
                                 Len(run.results), <<>>),
                            Show("dataframe", "", "", 0, run.results)>>
                     ELSE <<Show("success", "All users are using the team default cap",
                                 "", 0, <<>>)>>)]
    /\ UNCHANGED <<cliVars, apiVars, page, bulkVars, verify_emails>>

----------------------------------------------------------------------------
(* app.py, "Verify Caps": Clear Caps for the selected users *)

\* The emails of the checked boxes, in the order of custom_cap_users.
selected_emails(users, checked) ==
    LET idx == SelectSeq([k \in 1..Len(users) |-> k], LAMBDA k : k \in checked)
    IN  [k \in 1..Len(idx) |-> users[idx[k]].email]

\* Button "Clear Caps for N User(s)", rendered when a box is checked.
ClearCapsStart ==
    /\ OnVerifyPage
    /\ custom_cap_users /= <<>>
    /\ \E checked \in SUBSET (1..Len(custom_cap_users)) :
        /\ checked /= {}
        /\ run' = StartRun("clear_caps", selected_emails(custom_cap_users, checked))
    /\ UNCHANGED <<cliVars, apiVars, page, bulkVars, verifyVars>>

ClearCapsStep ==
    /\ run.loop = "clear_caps" /\ run.state = "running"
    /\ run.pos < Len(run.items)
    /\ LET email == run.items[run.pos + 1]
       IN  \E n \in SetAnswers :
            LET r == set_usage_config(SERVICE_KEY, None, TRUE, FALSE, None, Some(email), n)
                uncaught == r.outcome = "raise" /\ r.exc /= "WindsurfAPIError"
                how == IF r.outcome = "return" THEN "ok" ELSE r.exc
                h == Handled(email, "set_usage_config", None, how)
            IN  run' =
                    IF uncaught
                    THEN [run EXCEPT !.state = "crashed", !.handled = Append(@, h)]
                    ELSE [run EXCEPT
                            !.success_count = IF r.outcome = "return" THEN @ + 1 ELSE @,
                            !.fail_count = IF r.outcome = "return" THEN @ ELSE @ + 1,
                            !.shown = IF r.outcome = "return" THEN @
                                      ELSE Append(@, Show("error", "Failed to clear cap",
                                                          email, 0, <<r.msg>>)),
                            !.handled = Append(@, h),
                            !.progress = Append(@, [num |-> run.pos + 1,
                                                    den |-> Len(run.items)]),
                            !.pos = @ + 1,
                            !.state = IF ProgressOk(run.pos + 1, Len(run.items))
                                      THEN "running" ELSE "crashed"]
    /\ UNCHANGED <<cliVars, apiVars, page, bulkVars, verifyVars>>

\* After the loop: the two counts are shown, the list is emptied and the
\* script is rerun.
ClearCapsEnd ==
    /\ run.loop = "clear_caps" /\ run.state = "running"
    /\ run.pos = Len(run.items)
    /\ custom_cap_users' = <<>>
    /\ run' = [run EXCEPT
                !.state = "done",
                !.shown = @
                    \o (IF run.success_count > 0
                        THEN <<Show("success", "Cleared caps", "", run.success_count, <<>>)>>
                        ELSE <<>>)
                    \o (IF run.fail_count > 0
                        THEN <<Show("warning", "Failed to clear caps", "",
                                    run.fail_count, <<>>)>>
                        ELSE <<>>)]
    /\ UNCHANGED <<cliVars, apiVars, page, bulkVars, verify_emails>>

NextApp ==
    \/ UploadCsv
    \/ SetThreshold
    \/ SetBuffer
    \/ SetDryRun
    \/ ApplyCapsStart
    \/ ApplyCapsStep
    \/ ApplyCapsEnd
    \/ EnterEmails
    \/ CheckUsersStart
    \/ CheckUsersStep
    \/ CheckUsersEnd
    \/ FindCustomCapsStart
    \/ FindCustomCapsStep
    \/ FindCustomCapsEnd
    \/ ClearCapsStart
    \/ ClearCapsStep
    \/ ClearCapsEnd

SpecApp == InitApp /\ [][NextApp]_vars

----------------------------------------------------------------------------
(* Properties of the bulk cap calculation *)

CsvReady == uploaded /= None /\ uploaded[1].columns_ok

\* Positions of the rows of df whose credits_used is above the threshold.
AboveThreshold(df) == {k \in 1..Len(df) : df[k].credits_used > Half(threshold)}

\* c is the whole number obtained from x half credits by dropping the
\* fraction (rounding toward zero).
IsTruncationOf(c, x) ==
    IF x >= 0
    THEN Half(c) <= x /\ x < Half(c + 1)
    ELSE Half(c) >= x /\ x > Half(c - 1)

\* The rows of high_usage are the rows of df above the threshold, in their
\* input order, each with its input values.
SelectionIsExact ==
    LET df == uploaded[1].rows
    IN  /\ {high_usage[k].index + 1 : k \in 1..Len(high_usage)} = AboveThreshold(df)
        /\ \A j, k \in 1..Len(high_usage) :
            j < k => high_usage[j].index < high_usage[k].index
        /\ \A k \in 1..Len(high_usage) :
            /\ high_usage[k].email = df[high_usage[k].index + 1].email
            /\ high_usage[k].credits_used = df[high_usage[k].index + 1].credits_used

----------------------------------------------------------------------------
(* Properties of the batch loops *)

BatchLoops == {"check_users", "find_custom_caps", "clear_caps", "apply_caps"}

Finished == run.state \in {"done", "crashed"}

\* The emails the loop has to handle, in order (Find Users with Custom Caps
\* skips the users that have no email).
ItemEmails ==
    IF run.loop = "apply_caps"
    THEN [k \in 1..Len(run.items) |-> run.items[k].email]
    ELSE IF run.loop = "find_custom_caps"
    THEN LET us == SelectSeq(run.items, LAMBDA u : u.email /= "")
         IN  [k \in 1..Len(us) |-> us[k].email]
    ELSE run.items

HandledEmails == [k \in 1..Len(run.handled) |-> run.handled[k].email]

Failed(k) == run.handled[k].outcome = "WindsurfAPIError"

\* The page tells the operator how the k-th handled item ended.
ItemReported(k) ==
    IF run.loop \in {"check_users", "apply_caps"}
    THEN \E i \in 1..Len(run.shown) :
            /\ run.shown[i].widget = "dataframe"
            /\ Len(run.shown[i].rows) >= k
            /\ run.shown[i].rows[k].email = run.handled[k].email
            /\ (run.shown[i].rows[k].status = "Error") <=> Failed(k)
    ELSE IF Failed(k)
    THEN \E i \in 1..Len(run.shown) :
            /\ run.shown[i].widget = "error"
            /\ run.shown[i].email = run.handled[k].email
    ELSE \E i \in 1..Len(run.shown) : run.shown[i].widget = "success"

\* C10 (as claimed): in each batch loop a WindsurfAPIError raised for one
\* item does not stop the loop: all items are handled, in order, and the
\* success or failure of each handled item is reported to the operator.
C10_LoopsContinueAndReport ==
    (/\ run.loop \in BatchLoops
     /\ Finished
     /\ \E k \in 1..Len(run.handled) : Failed(k))
    => /\ HandledEmails = ItemEmails
       /\ \A k \in 1..Len(run.handled) : ItemReported(k)

----------------------------------------------------------------------------
(* Properties of Apply Caps *)

ApplyFinished == run.loop = "apply_caps" /\ Finished

\* C11 (as claimed): with Dry run checked, Apply Caps calls set_usage_config
\* for no row and records exactly one "Would set (dry run)" result per
\* selected row; with it unchecked, set_usage_config is called exactly once
\* per selected row, with that row's proposed cap and email.
C11_DryRunSetsNothing ==
    ApplyFinished =>
        IF dry_run
        THEN /\ \A k \in 1..Len(run.handled) : run.handled[k].fn = "none"
             /\ run.results =
                    [k \in 1..Len(run.items) |->
                        Row(run.items[k].email, Some(run.items[k].proposed_cap),
                            "Would set (dry run)", "")]
        ELSE [k \in 1..Len(run.handled) |->
                <<run.handled[k].fn, run.handled[k].email, run.handled[k].cap>>]
             = [k \in 1..Len(run.items) |->
                <<"set_usage_config", run.items[k].email,
                  Some(run.items[k].proposed_cap)>>]

\* C12 (as claimed): every progress value (i + 1) / len(high_usage) reported
\* by Apply Caps lies in [0, 1], so the loop reaches the last selected row.
C12_ProgressInRange ==
    run.loop = "apply_caps" =>
        /\ \A k \in 1..Len(run.progress) :
            0 <= run.progress[k].num /\ run.progress[k].num <= run.progress[k].den
        /\ Finished => Len(run.handled) = Len(run.items)

----------------------------------------------------------------------------
(* cli.py: ensure_api_key *)

\* Pieces a .env file found on disk is made of.
FilePieces == {"FOO=bar", NL, KeyName, "sk-1"}

\* Largest number of pieces of the file found on disk.
MaxFileLen == 3

Files ==
    {None} \cup {Some(t) : t \in UNION {[1..n -> FilePieces] : n \in 0..MaxFileLen}}

\* Values of WINDSURF_SERVICE_KEY in the environment the CLI is started in.
Environs == {None, Some(<<>>), Some(<<"sk-0">>)}

\* What the operator can type at the prompt.
Inputs == {<<>>, <<" ">>, <<"sk-2">>, <<" ", "sk-2", " ">>}

InitCli ==
    /\ SERVICE_KEY = None
    /\ op = "none"
    /\ args = NoArgs
    /\ net = NoNet
    /\ result = NoResult
    /\ page = "Verify Caps"
    /\ WidgetDefaults
    /\ custom_cap_users = <<>>
    /\ run = NoRun
    /\ environ \in Environs
    /\ env_file \in Files
    /\ cli = CliStart

\* Lines 18-31: the .env file is loaded; with a key in the environment the
\* function returns, otherwise the notice is printed and the prompt shown.
EnsureApiKeyLoad ==
    /\ cli.pc = "start"
    /\ environ' = load_dotenv(env_file, environ)
    /\ cli' = [cli EXCEPT !.pc = IF TruthyText(environ') THEN "returned" ELSE "prompt"]
    /\ UNCHANGED <<apiVars, uiVars, env_file>>

\* Lines 33-55: the operator answers the prompt.
EnsureApiKeyInput ==
    /\ cli.pc = "prompt"
    /\ \E typed \in Inputs :
        LET api_key == strip_input(typed)
        IN  IF api_key = <<>>
            THEN /\ cli' = [cli EXCEPT !.pc = "exited", !.prompts = @ + 1,
                                       !.exit_status = Some(1)]
                 /\ UNCHANGED <<environ, env_file>>
            ELSE /\ env_file' = write_key(env_file, api_key)
                 /\ environ' = Some(api_key)
                 /\ cli' = [cli EXCEPT !.pc = "returned", !.prompts = @ + 1,
                                       !.api_key = api_key]
    /\ UNCHANGED <<apiVars, uiVars>>

NextCli == EnsureApiKeyLoad \/ EnsureApiKeyInput

SpecCli == InitCli /\ [][NextCli]_vars

----------------------------------------------------------------------------
(* Properties of ensure_api_key *)

\* Text t starts with everything the file held before.
KeepsContent(before, t) ==
    before = None \/ (Len(t) >= Len(before[1]) /\ SubSeq(t, 1, Len(before[1])) = before[1])

\* Text t has a line that is exactly WINDSURF_SERVICE_KEY=<key>.
HasKeyLine(t, key) ==
    \E k \in 1..Len(LinesOf(t)) : LinesOf(t)[k] = <<KeyName>> \o key

\* C13 (as claimed): a non-empty key received at the prompt leaves a file
\* that keeps its previous content and has a line that is exactly
\* WINDSURF_SERVICE_KEY=<key>, whatever the file was before; with the key
\* already available nothing is prompted or written; an empty answer exits
\* with status 1 and writes nothing.
C13_KeyPersisted ==
    [][/\ (cli.pc = "prompt" /\ cli'.pc = "returned") =>
            /\ env_file' /= None
            /\ KeepsContent(env_file, env_file'[1])
            /\ HasKeyLine(env_file'[1], cli'.api_key)
       /\ (cli.pc = "start" /\ TruthyText(load_dotenv(env_file, environ))) =>
            /\ cli'.pc = "returned"
            /\ cli'.prompts = 0
            /\ env_file' = env_file
       /\ (cli.pc = "prompt" /\ cli'.pc = "exited") =>
            /\ cli'.exit_status = Some(1)
            /\ env_file' = env_file
       /\ (cli.pc = "prompt" /\ cli'.pc = "returned") => cli'.api_key /= <<>>
      ]_vars

====
